---- MODULE Spec2Model ----
(***************************************************************************)
(* Model of two1/bitcoin/crypto.py: PrivateKey, PublicKey and Signature    *)
(* and their encodings (DER, SEC, fixed width, Base58Check), signing, key   *)
(* recovery and the Bitcoin Signed Message envelope.                       *)
(*                                                                         *)
(* A client holds one current value (ret) and either calls an operation on *)
(* an input of its own choosing or feeds the current value to the next     *)
(* operation.  op names the last call, arg its argument, ret its outcome;  *)
(* via names the call that produced arg and origin that call's argument    *)
(* (for an input from outside: "input" and what the input was made from),  *)
(* which is what a round trip compares with.  inner holds what the call    *)
(* did out of the caller's sight: the Signature it built and the candidate *)
(* keys the curve gave it.                                                 *)
(*                                                                         *)
(* Python values are records tagged with their type; an outcome is either  *)
(* a returned value or a raised exception.  Bytes are sequences over       *)
(* 0..255 and keep their width.  The curve is y^2 = x^3 + 7 over a prime   *)
(* field like secp256k1, with a 16-bit field so that TLC can compute on    *)
(* it, and scalars are ScalarBytes wide instead of 32 bytes.               *)
(***************************************************************************)
EXTENDS Integers, Sequences, FiniteSets, TLC

VARIABLES op, arg, ret, origin, via, inner

vars == <<op, arg, ret, origin, via, inner>>

(***************************************************************************)
(* Python values and outcomes                                              *)
(***************************************************************************)
NoneV == [type |-> "NoneType"]

BytesV(b) == [type |-> "bytes", val |-> b]

StrV(s) == [type |-> "str", val |-> s]

IntV(i) == [type |-> "int", val |-> i]

Return(v) == [status |-> "return", exc |-> "", reason |-> "", value |-> v]

Raise(e, why) == [status |-> "raise", exc |-> e, reason |-> why, value |-> NoneV]

Returned(o) == o.status = "return"

Min(a, b) == IF a < b THEN a ELSE b

Max(a, b) == IF a > b THEN a ELSE b

(***************************************************************************)
(* Python's bytes: indexing from 0, slices that clamp, big-endian integers *)
(***************************************************************************)
\* b[i] is defined for 0 <= i < len(b) (the code never uses a negative index)
HasIndex(b, i) == i >= 0 /\ i < Len(b)

Item(b, i) == b[i + 1]

\* b[lo:hi] for 0 <= lo
Slice(b, lo, hi) == SubSeq(b, lo + 1, Min(hi, Len(b)))

\* b[lo:]
SliceFrom(b, lo) == SubSeq(b, lo + 1, Len(b))

RECURSIVE int_from_bytes(_)
int_from_bytes(b) ==
  IF Len(b) = 0 THEN 0
  ELSE 256 * int_from_bytes(SubSeq(b, 1, Len(b) - 1)) + b[Len(b)]

RECURSIVE Pow256(_)
Pow256(len) == IF len = 0 THEN 1 ELSE 256 * Pow256(len - 1)

RECURSIVE BigEndian(_, _)
BigEndian(x, len) ==
  IF len = 0 THEN <<>> ELSE Append(BigEndian(x \div 256, len - 1), x % 256)

\* x.to_bytes(len, 'big'): OverflowError for a negative x or one too wide
int_to_bytes(x, len) ==
  IF x < 0 THEN Raise("OverflowError", "can't convert negative int to unsigned")
  ELSE IF x >= Pow256(len) THEN Raise("OverflowError", "int too big to convert")
  ELSE Return(BytesV(BigEndian(x, len)))

\* ceil(x.bit_length() / 8) for x >= 0
RECURSIVE ByteLength(_)
ByteLength(x) == IF x = 0 THEN 0 ELSE 1 + ByteLength(x \div 256)

(***************************************************************************)
(* get_bytes                                                               *)
(***************************************************************************)
IsHexDigit(c) == c \in (48..57) \cup (65..70) \cup (97..102)

HexValue(c) == IF c <= 57 THEN c - 48 ELSE IF c <= 70 THEN c - 55 ELSE c - 87

RECURSIVE HexPairs(_)
HexPairs(s) ==
  IF Len(s) = 0 THEN <<>>
  ELSE <<16 * HexValue(s[1]) + HexValue(s[2])>> \o HexPairs(SubSeq(s, 3, Len(s)))

\* bytes.fromhex on a string without blanks
bytes_fromhex(s) ==
  IF Len(s) % 2 = 0 /\ \A i \in 1..Len(s) : IsHexDigit(s[i])
  THEN Return(BytesV(HexPairs(s)))
  ELSE Raise("ValueError", "non-hexadecimal number found in fromhex() arg")

get_bytes(s) ==
  IF s.type = "bytes" THEN Return(s)
  ELSE IF s.type = "str" THEN bytes_fromhex(s.val)
  ELSE Raise("TypeError", "s must be either 'bytes' or 'str'!")

(***************************************************************************)
(* The curve collaborator (two1.crypto.ecdsa), secp256k1's equation over a *)
(* 16-bit prime field: y^2 = x^3 + 7 mod CurveP, a group of prime order    *)
(* CurveN < CurveP generated by <<CurveGx, CurveGy>>.                      *)
(***************************************************************************)
CurveP == 33343

CurveN == 33151

CurveB == 7

CurveGx == 1

CurveGy == 17483

\* scalars are ScalarBytes bytes wide on the wire (32 for secp256k1)
ScalarBytes == 2

\* bitcoin_curve.nlen, the bit length of a scalar
CurveNLen == 8 * ScalarBytes

Infinity == [inf |-> TRUE, x |-> 0, y |-> 0]

Point(x, y) == [inf |-> FALSE, x |-> x, y |-> y]

RECURSIVE ModPow(_, _, _)
ModPow(a, e, m) ==
  IF e = 0 THEN 1
  ELSE LET h == ModPow(a, e \div 2, m)
           q == (h * h) % m
       IN  IF e % 2 = 1 THEN (q * (a % m)) % m ELSE q

ModInv(a) == ModPow(a % CurveP, CurveP - 2, CurveP)

\* x^3 + 7 mod p
CurveRhs(x) == ((((x % CurveP) * (x % CurveP)) % CurveP) * (x % CurveP) + CurveB) % CurveP

\* a point of the curve: field elements that satisfy the equation
is_on_curve(pt) ==
  /\ ~pt.inf
  /\ pt.x \in 0..(CurveP - 1)
  /\ pt.y \in 0..(CurveP - 1)
  /\ ((pt.y % CurveP) * (pt.y % CurveP)) % CurveP = CurveRhs(pt.x)

PointAdd(a, b) ==
  IF a.inf THEN b
  ELSE IF b.inf THEN a
  ELSE IF a.x = b.x /\ (a.y + b.y) % CurveP = 0 THEN Infinity
  ELSE LET l == IF a.x = b.x
                THEN (((3 * ((a.x * a.x) % CurveP)) % CurveP) * ModInv(2 * a.y)) % CurveP
                ELSE (((b.y - a.y) % CurveP) * ModInv(b.x - a.x)) % CurveP
           x == (l * l - a.x - b.x) % CurveP
       IN  Point(x, (l * ((a.x - x) % CurveP) - a.y) % CurveP)

RECURSIVE ScalarMult(_, _)
ScalarMult(k, pt) ==
  IF k = 0 THEN Infinity
  ELSE LET h == ScalarMult(k \div 2, PointAdd(pt, pt))
       IN  IF k % 2 = 1 THEN PointAdd(h, pt) ELSE h

\* bitcoin_curve.public_key(k) = k * G
public_key(k) == ScalarMult(k, Point(CurveGx, CurveGy))

\* bitcoin_curve.y_from_x(x): both square roots of x^3 + 7 (p = 3 mod 4)
y_from_x(x) ==
  LET y == ModPow(CurveRhs(x), (CurveP + 1) \div 4, CurveP)
  IN  <<y, (CurveP - y) % CurveP>>

(***************************************************************************)
(* Signature                                                               *)
(***************************************************************************)
NoRecoveryId == <<>>

\* Signature.__init__: the fields are stored as given
Signature(r, s, recovery_id) ==
  [type |-> "Signature", r |-> r, s |-> s, recovery_id |-> recovery_id]

\* x_bytes[0] & 0x80 != 0
HighBitSet(b) == Item(b, 0) >= 128

\* len(b) > 1 and b[0] == 0 and b[1] & 0x80 != 0x80
ExcessivelyPadded(b) == Len(b) > 1 /\ Item(b, 0) = 0 /\ Item(b, 1) < 128

DerTooShort(d) == Len(d) < 8

\* the sequence tag is not looked at
DerBadSequenceTag_Unchecked(d) == FALSE

DerBadSequenceTag(d) == Item(d, 0) # 48

DerBadLength(d) == Item(d, 1) # Len(SliceFrom(d, 2))

\* the r length is checked for being positive only
DerBadRLength_NoUpperBound(d, total_length) == Item(d, 3) <= 0

DerBadRLength(d, total_length) == Item(d, 3) <= 0 \/ Item(d, 3) > total_length - 7

DerBadSLength(d, slen, slen_index) == slen <= 0 \/ slen > Len(d) - (slen_index + 1)

ScalarOutOfRange(v) == v < 1 \/ v >= CurveN

IndexError == Raise("IndexError", "index out of range")

DerError(why) == Raise("ValueError", why)

from_der(der) ==
  LET g == get_bytes(der) IN
  IF ~Returned(g) THEN g ELSE
  LET d == g.value.val
      total_length == Item(d, 1)
      rlen == Item(d, 3)
      s_magic_index == 4 + rlen
      rb == Slice(d, 4, s_magic_index)
      slen_index == s_magic_index + 1
      slen == Item(d, slen_index)
      sb == SliceFrom(d, slen_index + 1)
      r == int_from_bytes(rb)
      s == int_from_bytes(sb)
  IN
  IF DerTooShort(d) THEN DerError("DER signature string is too short.")
  ELSE IF ~HasIndex(d, 0) THEN IndexError
  ELSE IF DerBadSequenceTag(d) THEN DerError("DER signature does not start with 0x30.")
  ELSE IF ~HasIndex(d, 1) THEN IndexError
  ELSE IF DerBadLength(d) THEN DerError("DER signature length incorrect.")
  ELSE IF ~HasIndex(d, 2) THEN IndexError
  ELSE IF Item(d, 2) # 2 THEN DerError("DER signature no 1st int marker.")
  ELSE IF ~HasIndex(d, 3) THEN IndexError
  ELSE IF DerBadRLength(d, total_length) THEN DerError("DER signature incorrect r length.")
  ELSE IF ~HasIndex(rb, 0) THEN IndexError
  ELSE IF HighBitSet(rb) THEN DerError("DER signature R is negative.")
  ELSE IF ExcessivelyPadded(rb) THEN DerError("DER signature R is excessively padded.")
  ELSE IF ~HasIndex(d, s_magic_index) THEN IndexError
  ELSE IF Item(d, s_magic_index) # 2 THEN DerError("DER signature no 2nd int marker.")
  ELSE IF ~HasIndex(d, slen_index) THEN IndexError
  ELSE IF DerBadSLength(d, slen, slen_index) THEN DerError("DER signature incorrect s length.")
  ELSE IF ~HasIndex(sb, 0) THEN IndexError
  ELSE IF HighBitSet(sb) THEN DerError("DER signature S is negative.")
  ELSE IF ExcessivelyPadded(sb) THEN DerError("DER signature S is excessively padded.")
  ELSE IF ScalarOutOfRange(r) THEN DerError("DER signature R is not between 1 and N - 1.")
  ELSE IF ScalarOutOfRange(s) THEN DerError("DER signature S is not between 1 and N - 1.")
  ELSE Return(Signature(r, s, NoRecoveryId))

\* one element of Signature._canonicalize, for x >= 0
Canonical(x) ==
  LET bl == IF ByteLength(x) = 0 THEN 1 ELSE ByteLength(x)
      x_bytes == BigEndian(x, bl)
  IN  IF HighBitSet(x_bytes) THEN <<0>> \o x_bytes ELSE x_bytes

to_der(sig) ==
  LET r == Canonical(sig.r)
      s == Canonical(sig.s)
      total_length == 6 + Len(r) + Len(s)
  IN  IF sig.r < 0 \/ sig.s < 0
      THEN Raise("OverflowError", "can't convert negative int to unsigned")
      ELSE Return(BytesV(<<48, total_length - 2, 2, Len(r)>> \o r \o <<2, Len(s)>> \o s))

\* Signature.from_bytes: no length check and no range check
Signature_from_bytes(b) ==
  Return(Signature(int_from_bytes(Slice(b.val, 0, ScalarBytes)),
                   int_from_bytes(Slice(b.val, ScalarBytes, 2 * ScalarBytes)),
                   NoRecoveryId))

\* Signature.__bytes__
Signature_bytes(sig) ==
  LET nbytes == (CurveNLen + 7) \div 8
      rb == int_to_bytes(sig.r, nbytes)
      sb == int_to_bytes(sig.s, nbytes)
  IN  IF ~Returned(rb) THEN rb
      ELSE IF ~Returned(sb) THEN sb
      ELSE Return(BytesV(rb.value.val \o sb.value.val))

(***************************************************************************)
(* hashlib and base58.  The digests stand in for SHA-256 and RIPEMD-160:   *)
(* deterministic functions of the bytes, 4 and 3 bytes wide.               *)
(***************************************************************************)
RECURSIVE Mix(_, _, _, _)
Mix(b, acc, mult, modulus) ==
  IF Len(b) = 0 THEN acc
  ELSE Mix(Tail(b), (acc * mult + Head(b) + 1) % modulus, mult, modulus)

sha256(b) == BigEndian(Mix(b, 7, 31, 65521), 2) \o BigEndian(Mix(b, 11, 37, 65519), 2)

ripemd160(b) == BigEndian(Mix(b, 5, 29, 65497), 2) \o <<Mix(b, 3, 13, 251)>>

B58Alphabet ==
  <<
    49, 50, 51, 52, 53, 54, 55, 56, 57, 65, 66, 67, 68, 69, 70,
    71, 72, 74, 75, 76, 77, 78, 80, 81, 82, 83, 84, 85, 86, 87,
    88, 89, 90, 97, 98, 99, 100, 101, 102, 103, 104, 105, 106, 107, 109,
    110, 111, 112, 113, 114, 115, 116, 117, 118, 119, 120, 121, 122>>

B58Index(c) == CHOOSE i \in 1..Len(B58Alphabet) : B58Alphabet[i] = c

B58Chars == {B58Alphabet[i] : i \in 1..Len(B58Alphabet)}

RECURSIVE LeadingCount(_, _)
LeadingCount(s, c) ==
  IF Len(s) > 0 /\ Head(s) = c THEN 1 + LeadingCount(Tail(s), c) ELSE 0

Repeat(c, k) == [i \in 1..k |-> c]

\* the quotient and the remainder of a big-endian number by d
RECURSIVE QuotBy(_, _, _)
QuotBy(b, d, carry) ==
  IF Len(b) = 0 THEN <<>>
  ELSE LET cur == carry * 256 + Head(b)
       IN  <<cur \div d>> \o QuotBy(Tail(b), d, cur % d)

RECURSIVE RemBy(_, _, _)
RemBy(b, d, carry) ==
  IF Len(b) = 0 THEN carry ELSE RemBy(Tail(b), d, (carry * 256 + Head(b)) % d)

StripZeros(b) == SliceFrom(b, LeadingCount(b, 0))

\* the base-58 digits of a big-endian number without leading zeros
RECURSIVE ToBase58(_)
ToBase58(b) ==
  IF Len(b) = 0 THEN <<>>
  ELSE Append(ToBase58(StripZeros(QuotBy(b, 58, 0))), RemBy(b, 58, 0))

\* b * m + c on a big-endian number
RECURSIVE MulAdd(_, _, _)
MulAdd(b, m, c) ==
  IF Len(b) = 0 THEN (IF c = 0 THEN <<>> ELSE <<c>>)
  ELSE LET cur == b[Len(b)] * m + c
       IN  Append(MulAdd(SubSeq(b, 1, Len(b) - 1), m, cur \div 256), cur % 256)

RECURSIVE FromBase58(_)
FromBase58(ds) ==
  IF Len(ds) = 0 THEN <<>>
  ELSE MulAdd(FromBase58(SubSeq(ds, 1, Len(ds) - 1)), 58, ds[Len(ds)])

b58encode(b) ==
  LET ds == ToBase58(StripZeros(b))
  IN  Repeat(B58Alphabet[1], LeadingCount(b, 0)) \o [i \in 1..Len(ds) |-> B58Alphabet[ds[i] + 1]]

b58decode(s) ==
  IF \E i \in 1..Len(s) : s[i] \notin B58Chars
  THEN Raise("ValueError", "Invalid character")
  ELSE LET z == LeadingCount(s, B58Alphabet[1])
           rest == SliceFrom(s, z)
       IN  Return(BytesV(Repeat(0, z)
                         \o FromBase58([i \in 1..Len(rest) |-> B58Index(rest[i]) - 1])))

\* the first 4 bytes of the double digest
Checksum(b) == Slice(sha256(sha256(b)), 0, 4)

b58encode_check(b) == StrV(b58encode(b \o Checksum(b)))

b58decode_check(s) ==
  LET dec == b58decode(s.val) IN
  IF ~Returned(dec) THEN dec ELSE
  LET result == Slice(dec.value.val, 0, Len(dec.value.val) - 4)
      check == SliceFrom(dec.value.val, Max(0, Len(dec.value.val) - 4))
  IN  IF check # Checksum(result)
      THEN Raise("ValueError", "Invalid checksum")
      ELSE Return(BytesV(result))

(***************************************************************************)
(* PublicKey                                                               *)
(***************************************************************************)
PublicKey_TESTNET_VERSION == 111

PublicKey_MAINNET_VERSION == 0

\* bytes(point): 0x04 || x || y
point_bytes(pt) == <<4>> \o BigEndian(pt.x, ScalarBytes) \o BigEndian(pt.y, ScalarBytes)

\* point.compressed_bytes: (0x02 + parity of y) || x
point_compressed_bytes(pt) == <<2 + (pt.y % 2)>> \o BigEndian(pt.x, ScalarBytes)

\* PublicKey.__init__
PublicKey_init(x, y) ==
  LET p == Point(x, y) IN
  IF ~is_on_curve(p)
  THEN Raise("ValueError", "The provided (x, y) are not on the secp256k1 curve.")
  ELSE Return([type |-> "PublicKey", point |-> p,
               ripe |-> ripemd160(sha256(point_bytes(p))),
               ripe_compressed |-> ripemd160(sha256(point_compressed_bytes(p)))])

PublicKey_from_point(p) == PublicKey_init(p.x, p.y)

PublicKey_bytes(pub) == Return(BytesV(point_bytes(pub.point)))

PublicKey_compressed_bytes(pub) == Return(BytesV(point_compressed_bytes(pub.point)))

UncompressedLengthOk(key_bytes_len) == key_bytes_len = 1 + 2 * ScalarBytes

\* a compressed key of any length is taken
CompressedLengthOk_Unchecked(key_bytes_len) == TRUE

CompressedLengthOk(key_bytes_len) == key_bytes_len = 1 + ScalarBytes

\* the first root is taken whatever its parity
ParityMatches_Ignored(y, last_bit) == TRUE

\* y & 0x1 == last_bit
ParityMatches(y, last_bit) == y % 2 = last_bit

\* for y in ys: if <match>: break -- the index of the y the loop leaves
RECURSIVE LoopBreak(_, _, _)
LoopBreak(ys, last_bit, i) ==
  IF i >= Len(ys) \/ ParityMatches(ys[i], last_bit) THEN i
  ELSE LoopBreak(ys, last_bit, i + 1)

PublicKey_from_bytes(key_bytes) ==
  LET g == get_bytes(key_bytes) IN
  IF ~Returned(g) THEN g ELSE
  LET b == g.value.val
      key_bytes_len == Len(b)
      key_type == Item(b, 0)
      x == int_from_bytes(Slice(b, 1, 1 + ScalarBytes))
      ys == y_from_x(x)
      last_bit == key_type - 2
  IN
  IF ~HasIndex(b, 0) THEN IndexError
  ELSE IF key_type = 4
  THEN IF ~UncompressedLengthOk(key_bytes_len)
       THEN Raise("ValueError", "key_bytes must be exactly 65 bytes long when uncompressed.")
       ELSE PublicKey_init(x, int_from_bytes(Slice(b, 1 + ScalarBytes, 1 + 2 * ScalarBytes)))
  ELSE IF key_type = 2 \/ key_type = 3
  THEN IF ~CompressedLengthOk(key_bytes_len)
       THEN Raise("ValueError", "key_bytes must be exactly 33 bytes long when compressed.")
       ELSE IF Len(ys) = 0
       THEN Raise("UnboundLocalError", "local variable 'y' referenced before assignment")
       ELSE PublicKey_init(x, ys[LoopBreak(ys, last_bit, 1)])
  ELSE Return(NoneV)

hash160(pub, compressed) == IF compressed THEN pub.ripe_compressed ELSE pub.ripe

address(pub, compressed, testnet) ==
  LET version == IF testnet THEN <<PublicKey_TESTNET_VERSION>>
                 ELSE <<PublicKey_MAINNET_VERSION>>
  IN  Return(b58encode_check(version \o hash160(pub, compressed)))

(***************************************************************************)
(* PrivateKey                                                              *)
(***************************************************************************)
PrivateKey_TESTNET_VERSION == 239

PrivateKey_MAINNET_VERSION == 128

\* PrivateKey.__init__: the scalar is stored as given and the public key derived
PrivateKey_init(k) ==
  LET pub == PublicKey_from_point(public_key(k)) IN
  IF ~Returned(pub) THEN pub
  ELSE Return([type |-> "PrivateKey", key |-> k, public_key |-> pub.value])

PrivateKey_from_int(i) == PrivateKey_init(i)

\* random.randrange(start, stop): the values start .. stop - 1
randrange(start, stop) == start..(stop - 1)

\* the values PrivateKey.from_random passes to the constructor
RandomScalars == randrange(1, CurveN - 1)

PrivateKey_bytes(key) == int_to_bytes(key.key, ScalarBytes)

to_b58check(key, testnet) ==
  LET version == IF testnet THEN PrivateKey_TESTNET_VERSION ELSE PrivateKey_MAINNET_VERSION
      b == PrivateKey_bytes(key)
  IN  IF ~Returned(b) THEN b
      ELSE Return(b58encode_check(<<version>> \o b.value.val))

\* every version byte is taken
KnownVersion_Any(version) == TRUE

KnownVersion(version) == version \in {PrivateKey_TESTNET_VERSION, PrivateKey_MAINNET_VERSION}

from_b58check(private_key) ==
  LET dec == b58decode_check(private_key) IN
  IF ~Returned(dec) THEN dec ELSE
  LET b58dec == dec.value.val IN
  IF ~HasIndex(b58dec, 0) THEN IndexError
  ELSE IF ~KnownVersion(Item(b58dec, 0)) THEN Raise("AssertionError", "")
  ELSE PrivateKey_init(int_from_bytes(SliceFrom(b58dec, 1)))

(***************************************************************************)
(* The curve collaborator's ECDSA: sign, verify and key recovery over the  *)
(* curve above.  The nonce is the signer's choice; a signer may also       *)
(* replace s by n - s when s is in the upper half.                          *)
(***************************************************************************)
BoolV(b) == [type |-> "bool", val |-> b]

ModInvN(a) == ModPow(a % CurveN, CurveN - 2, CurveN)

\* the collaborator's digest of a message: two rounds
curve_hash(msg) == sha256(sha256(msg))

\* the integer a message stands for: the leftmost bits of its digest
MessageInt(msg, do_hash) ==
  int_from_bytes(Slice(IF do_hash THEN curve_hash(msg) ELSE msg, 0, ScalarBytes)) % CurveN

FlipParity(rec_id) == IF rec_id % 2 = 0 THEN rec_id + 1 ELSE rec_id - 1

\* bitcoin_curve.sign(msg, key, do_hash) with the nonce it drew
curve_sign(msg, key, do_hash, nonce, low_s) ==
  LET R == ScalarMult(nonce, Point(CurveGx, CurveGy))
      r == R.x % CurveN
      z == MessageInt(msg, do_hash)
      s == (ModInvN(nonce) * ((z + ((r * (key % CurveN)) % CurveN)) % CurveN)) % CurveN
      rec_id == (R.y % 2) + (IF R.x >= CurveN THEN 2 ELSE 0)
  IN  IF low_s /\ 2 * s > CurveN
      THEN [pt |-> Point(r, CurveN - s), rec_id |-> FlipParity(rec_id)]
      ELSE [pt |-> Point(r, s), rec_id |-> rec_id]

\* a nonce the signer keeps: neither r nor s comes out 0
NonceUsable(msg, key, do_hash, nonce) ==
  LET sg == curve_sign(msg, key, do_hash, nonce, FALSE)
  IN  sg.pt.x # 0 /\ sg.pt.y # 0

\* the x of the nonce point that recovery id j stands for
RecoveryX(sig, j) == sig.r + (j \div 2) * CurveN

\* recovery id j names a point of the curve
Recoverable(sig, j) ==
  /\ RecoveryX(sig, j) < CurveP
  /\ is_on_curve(Point(RecoveryX(sig, j), y_from_x(RecoveryX(sig, j))[1]))

\* the key that recovery id j gives: r^-1 (s R - z G)
RecoveredPoint(msg, sig, j) ==
  LET x == RecoveryX(sig, j)
      ys == y_from_x(x)
      R == Point(x, IF ys[1] % 2 = j % 2 THEN ys[1] ELSE ys[2])
      rinv == ModInvN(sig.r)
      z == MessageInt(msg, TRUE)
  IN  PointAdd(ScalarMult((rinv * (sig.s % CurveN)) % CurveN, R),
               ScalarMult((CurveN - ((rinv * z) % CurveN)) % CurveN, Point(CurveGx, CurveGy)))

RECURSIVE CandidatesFrom(_, _, _)
CandidatesFrom(msg, sig, j) ==
  LET Q == RecoveredPoint(msg, sig, j) IN
  IF j > 3 THEN <<>>
  ELSE IF Recoverable(sig, j) /\ ~Q.inf
  THEN <<<<Q, j>>>> \o CandidatesFrom(msg, sig, j + 1)
  ELSE CandidatesFrom(msg, sig, j + 1)

\* bitcoin_curve.recover_public_key(msg, signature, recovery_id): the
\* candidates <<point, recid>> recoverable from the message and the signature.
\* A strict collaborator refuses a signature out of range; a lenient one
\* computes whenever r has an inverse.
recover_public_key(msg, sig, recovery_id, lenient) ==
  IF sig.r < 1 \/ sig.s < 0 \/ sig.r % CurveN = 0 THEN <<>>
  ELSE IF ~lenient /\ (sig.r >= CurveN \/ sig.s < 1 \/ sig.s >= CurveN) THEN <<>>
  ELSE CandidatesFrom(msg, sig, 0)

\* bitcoin_curve.verify(msg, signature, point, do_hash)
curve_verify(msg, sig, pt, do_hash) ==
  /\ sig.r \in 1..(CurveN - 1)
  /\ sig.s \in 1..(CurveN - 1)
  /\ LET w == ModInvN(sig.s)
         z == MessageInt(msg, do_hash)
         X == PointAdd(ScalarMult((z * w) % CurveN, Point(CurveGx, CurveGy)),
                       ScalarMult((sig.r * w) % CurveN, pt))
     IN  ~X.inf /\ X.x % CurveN = sig.r

(***************************************************************************)
(* base64                                                                  *)
(***************************************************************************)
B64Alphabet ==
  <<
    65, 66, 67, 68, 69, 70, 71, 72, 73, 74, 75, 76, 77, 78, 79, 80,
    81, 82, 83, 84, 85, 86, 87, 88, 89, 90, 97, 98, 99, 100, 101, 102,
    103, 104, 105, 106, 107, 108, 109, 110, 111, 112, 113, 114, 115, 116, 117, 118,
    119, 120, 121, 122, 48, 49, 50, 51, 52, 53, 54, 55, 56, 57, 43, 47>>

B64Pad == 61

B64Chars == {B64Alphabet[i] : i \in 1..Len(B64Alphabet)}

B64Index(c) == CHOOSE i \in 1..Len(B64Alphabet) : B64Alphabet[i] = c

B64Char(v) == B64Alphabet[v + 1]

RECURSIVE b64encode(_)
b64encode(b) ==
  IF Len(b) = 0 THEN <<>>
  ELSE IF Len(b) = 1
  THEN <<B64Char(b[1] \div 4), B64Char((b[1] % 4) * 16), B64Pad, B64Pad>>
  ELSE IF Len(b) = 2
  THEN <<B64Char(b[1] \div 4), B64Char(((b[1] % 4) * 16) + (b[2] \div 16)),
         B64Char((b[2] % 16) * 4), B64Pad>>
  ELSE <<B64Char(b[1] \div 4), B64Char(((b[1] % 4) * 16) + (b[2] \div 16)),
         B64Char(((b[2] % 16) * 4) + (b[3] \div 64)), B64Char(b[3] % 64)>>
       \o b64encode(SubSeq(b, 4, Len(b)))

\* the bytes of the 4-character groups of sextets and pads
RECURSIVE B64Groups(_)
B64Groups(s) ==
  IF Len(s) = 0 THEN <<>>
  ELSE LET a == B64Index(s[1]) - 1
           b == B64Index(s[2]) - 1
           c == IF s[3] = B64Pad THEN 0 ELSE B64Index(s[3]) - 1
           d == IF s[4] = B64Pad THEN 0 ELSE B64Index(s[4]) - 1
           three == <<(a * 4) + (b \div 16), ((b % 16) * 16) + (c \div 4), ((c % 4) * 64) + d>>
       IN  IF s[3] = B64Pad THEN <<three[1]>>
           ELSE IF s[4] = B64Pad THEN <<three[1], three[2]>>
           ELSE three \o B64Groups(SubSeq(s, 5, Len(s)))

B64Keep(c) == c \in B64Chars \/ c = B64Pad

\* the pads stand at the end of the last group only
B64WellPadded(s) ==
  /\ Len(s) % 4 = 0
  /\ \A i \in 1..Len(s) :
       s[i] = B64Pad => /\ i >= Len(s) - 1
                        /\ \A j \in i..Len(s) : s[j] = B64Pad

\* base64.b64decode: characters outside the alphabet are dropped
b64decode(s) ==
  LET kept == SelectSeq(s.val, B64Keep) IN
  IF s.type \notin {"bytes", "str"}
  THEN Raise("TypeError", "argument should be a bytes-like object or ASCII string")
  ELSE IF ~B64WellPadded(kept) THEN Raise("binascii.Error", "Incorrect padding")
  ELSE Return(BytesV(B64Groups(kept)))

(***************************************************************************)
(* Signing, key recovery and the Bitcoin Signed Message envelope           *)
(***************************************************************************)
\* b"\x18Bitcoin Signed Message:\n"
BitcoinMessagePrefix ==
  <<24, 66, 105, 116, 99, 111, 105, 110, 32, 83, 105, 103, 110, 101, 100, 32,
    77, 101, 115, 115, 97, 103, 101, 58, 10>>

\* bytes([x])
single_byte(x) ==
  IF x \in 0..255 THEN Return(BytesV(<<x>>))
  ELSE Raise("ValueError", "bytes must be in range(0, 256)")

\* bytes(message, 'ascii') for a str, the message itself for bytes
message_bytes(message) ==
  IF message.type = "str"
  THEN IF \A i \in 1..Len(message.val) : message.val[i] < 128
       THEN Return(BytesV(message.val))
       ELSE Raise("UnicodeEncodeError", "ordinal not in range(128)")
  ELSE IF message.type = "bytes" THEN Return(message)
  ELSE Raise("TypeError", "message must be either str or bytes!")

\* PrivateKey.raw_sign: the collaborator's point and recovery id
raw_sign(key, message, do_hash, nonce, low_s) ==
  LET msg == message_bytes(message) IN
  IF ~Returned(msg) THEN msg
  ELSE Return(curve_sign(msg.value.val, key.key, do_hash, nonce, low_s))

\* PrivateKey.sign
PrivateKey_sign(key, message, do_hash, nonce, low_s) ==
  LET raw == raw_sign(key, message, do_hash, nonce, low_s) IN
  IF ~Returned(raw) THEN raw
  ELSE Return(Signature(raw.value.pt.x, raw.value.pt.y, <<raw.value.rec_id>>))

\* magic = 27 + sig.recovery_id
MagicOfRecoveryId(recovery_id) == 27 + recovery_id

\* the preimage sign_bitcoin hashes
signer_preimage(msg_in) ==
  LET length == single_byte(Len(msg_in)) IN
  IF ~Returned(length) THEN length
  ELSE Return(BytesV(BitcoinMessagePrefix \o length.value.val \o msg_in))

\* the envelope of a signature: the magic byte, then r and s, in base64
envelope(sig) ==
  LET magic == single_byte(MagicOfRecoveryId(sig.recovery_id[1]))
      body == Signature_bytes(sig)
  IN  IF ~Returned(magic) THEN magic
      ELSE IF ~Returned(body) THEN body
      ELSE Return(BytesV(b64encode(magic.value.val \o body.value.val)))

\* PrivateKey.sign_bitcoin.  The signature is signed once and the envelope
\* made of that value (the set of one element binds it).
sign_bitcoin(key, message, nonce, low_s) ==
  LET msg_in == message_bytes(message) IN
  IF ~Returned(msg_in) THEN msg_in
  ELSE LET msg == signer_preimage(msg_in.value.val) IN
  IF ~Returned(msg) THEN msg
  ELSE CHOOSE out \in {envelope(signed.value) :
                         signed \in {PrivateKey_sign(key, BytesV(sha256(msg.value.val)),
                                                     TRUE, nonce, low_s)}} : TRUE

\* PublicKey.verify
PublicKey_verify(pub, message, signature, do_hash) ==
  LET msg == get_bytes(message) IN
  IF ~Returned(msg) THEN msg
  ELSE Return(BoolV(curve_verify(msg.value.val, signature, pub.point, do_hash)))

\* any candidate is taken, whatever its recovery id
RecidMatches_Any(signature, recid) == TRUE

\* signature.recovery_id is not None and recid == signature.recovery_id
RecidMatches(signature, recid) ==
  signature.recovery_id # NoRecoveryId /\ recid = signature.recovery_id[1]

\* the loop over the candidates: the first whose recovery id matches
RECURSIVE from_signature_on(_, _)
from_signature_on(signature, pub_keys) ==
  IF pub_keys = <<>> THEN Return(NoneV)
  ELSE IF RecidMatches(signature, Head(pub_keys)[2])
  THEN PublicKey_init(Head(pub_keys)[1].x, Head(pub_keys)[1].y)
  ELSE from_signature_on(signature, Tail(pub_keys))

\* PublicKey.from_signature
from_signature(message, signature, lenient) ==
  IF signature.recovery_id = NoRecoveryId
  THEN Raise("ValueError", "The signature must have a recovery_id.")
  ELSE LET msg == get_bytes(message) IN
  IF ~Returned(msg) THEN msg
  ELSE from_signature_on(signature,
         recover_public_key(msg.value.val, signature, signature.recovery_id[1], lenient))

\* the recovery id is one more than the magic says
RecoveryIdOfMagic_OffByOne(magic) == magic - 26

\* sig.recovery_id = magic - 27
RecoveryIdOfMagic(magic) == magic - 27

\* the Signature verify_bitcoin builds from the text
verify_bitcoin_sig(signature) ==
  LET sig_bytes == get_bytes(signature)
      magic_sig == b64decode(signature)
  IN  IF ~Returned(sig_bytes) THEN sig_bytes
      ELSE IF ~Returned(magic_sig) THEN magic_sig
      ELSE IF ~HasIndex(magic_sig.value.val, 0)
      THEN Raise("IndexError", "index out of range")
      ELSE LET sig == Signature_from_bytes(BytesV(SliceFrom(magic_sig.value.val, 1))).value
           IN  Return(Signature(sig.r, sig.s,
                                <<RecoveryIdOfMagic(Item(magic_sig.value.val, 0))>>))

\* the preimage verify_bitcoin hashes
verifier_preimage(message) ==
  LET length == single_byte(Len(message.val)) IN
  IF message.type \notin {"bytes", "str"}
  THEN Raise("TypeError", "object has no len()")
  ELSE IF ~Returned(length) THEN length
  ELSE IF message.type # "bytes" THEN Raise("TypeError", "can't concat str to bytes")
  ELSE Return(BytesV(BitcoinMessagePrefix \o length.value.val \o message.val))

\* no key could be recovered: an error
OnRecoveryFailure_False == Return(BoolV(FALSE))

OnRecoveryFailure ==
  Raise("ValueError", "Could not recover public key from the provided signature.")

\* PublicKey.verify_bitcoin
verify_bitcoin(message, signature, lenient) ==
  LET sig == verify_bitcoin_sig(signature) IN
  IF ~Returned(sig) THEN sig
  ELSE LET msg == verifier_preimage(message) IN
  IF ~Returned(msg) THEN msg
  ELSE LET msg_hash == BytesV(sha256(msg.value.val))
           derived_public_key == from_signature(msg_hash, sig.value, lenient)
       IN  IF ~Returned(derived_public_key) THEN derived_public_key
           ELSE IF derived_public_key.value = NoneV THEN OnRecoveryFailure
           ELSE PublicKey_verify(derived_public_key.value, msg_hash, sig.value, TRUE)

(***************************************************************************)
(* Inputs                                                                  *)
(***************************************************************************)
\* longest s field of a generated DER input, in bytes
MaxSLen == 3

\* scalars around every boundary of the encodings and of the range [1, n-1]
ScalarSamples ==
  {0, 1, 2, 127, 128, 255, 256, 32767, 32768,
   CurveN - 2, CurveN - 1, CurveN, CurveN + 1, 65535, 65536}

ByteSamples == {0, 1, 2, 128}

IntFields(maxlen) == UNION {[1..l -> ByteSamples] : l \in 1..maxlen}

RFields == {<<1>>, <<0>>, <<128>>, <<0, 1>>, <<0, 128>>, <<1, 0>>}

\* <<sequence tag, declared length - true length, 1st marker, 2nd marker>>
DerHeaders ==
  {<<48, 0, 2, 2>>, <<49, 0, 2, 2>>, <<48, 1, 2, 2>>, <<48, -1, 2, 2>>,
   <<48, 0, 3, 2>>, <<48, 0, 2, 3>>, <<49, 1, 3, 3>>}

DerFrame(h, rl, rb, sl, sb) ==
  <<h[1], 4 + Len(rb) + Len(sb) + h[2], h[3], rl>> \o rb \o <<h[4], sl>> \o sb

\* framed inputs whose length bytes need not be the fields' lengths
DerFramed ==
  {DerFrame(h, rl, rb, sl, sb) :
     h \in DerHeaders, rl \in 0..4, sl \in 0..(MaxSLen + 1),
     rb \in RFields, sb \in IntFields(MaxSLen)}

DerShort == {SubSeq(<<48, 6, 2, 1, 1, 2, 1, 2>>, 1, k) : k \in 0..7}

DerInputs ==
  {BytesV(d) : d \in DerFramed \cup DerShort}
    \cup {StrV(<<51, 48, 48, 54, 48, 50, 48, 49, 48, 49, 48, 50, 48, 49, 48, 50>>),
          StrV(<<51, 48, 48>>), StrV(<<51, 48, 120, 121>>), IntV(48)}

\* fixed-width signatures: r || s of every width up to one byte too many
FixedInputs ==
  {BytesV(BigEndian(r, ScalarBytes) \o BigEndian(s, l)) :
     r \in {x \in ScalarSamples : x < Pow256(ScalarBytes)},
     s \in {x \in ScalarSamples : x < Pow256(ScalarBytes)},
     l \in {0, ScalarBytes, ScalarBytes + 1}}

\* longest Base58Check payload after the version byte, in bytes
MaxPayload == 3

\* Base58Check strings made from <<version>> \o payload \o checksum, the
\* checksum either right or with one byte altered
B58Raw ==
  {<<v>> \o BigEndian(k, l) \o [i \in 1..4 |-> IF i = bad THEN (Checksum(<<v>> \o BigEndian(k, l))[i] + 1) % 256
                                               ELSE Checksum(<<v>> \o BigEndian(k, l))[i]] :
     v \in {PrivateKey_MAINNET_VERSION, PrivateKey_TESTNET_VERSION, 0, 129},
     k \in {x \in ScalarSamples : x < 256}, l \in 0..MaxPayload, bad \in 0..4}
  \cup
  {<<v>> \o BigEndian(k, l) \o [i \in 1..4 |-> IF i = bad THEN (Checksum(<<v>> \o BigEndian(k, l))[i] + 1) % 256
                                               ELSE Checksum(<<v>> \o BigEndian(k, l))[i]] :
     v \in {PrivateKey_MAINNET_VERSION, PrivateKey_TESTNET_VERSION, 0, 129},
     k \in {x \in ScalarSamples : x >= 256 /\ x < 65536}, l \in 2..MaxPayload, bad \in 0..4}

\* SEC inputs: every prefix byte before every length of x || y || 0
SecPoints ==
  {<<CurveGx, CurveGy>>, <<CurveGx, CurveP - CurveGy>>, <<CurveGx, CurveGy + 1>>,
   <<9376, 28354>>, <<4007, 6869>>, <<3, 5>>, <<0, 0>>}

SecInputs ==
  {BytesV(<<t>> \o SubSeq(BigEndian(pt[1], ScalarBytes) \o BigEndian(pt[2], ScalarBytes) \o <<0>>, 1, l)) :
     t \in {0, 1, 2, 3, 4, 5, 6, 255}, pt \in SecPoints, l \in 0..(2 * ScalarBytes + 1)}
  \cup {BytesV(<<>>), StrV(<<48, 53>>), StrV(<<48, 53, 48>>), IntV(5)}

\* messages: bytes, and text (signing takes text as ASCII)
Messages == {BytesV(<<>>), BytesV(<<104, 105>>), StrV(<<97, 98>>)}

\* a message whose length does not fit the preimage's length byte
LongMessage == BytesV([i \in 1..256 |-> 0])

\* nonces the signer's random source may give; 358 G has x >= n
NonceSamples == {2, 7, 358, CurveN - 358}

RecoveryIds == {NoRecoveryId, <<-1>>, <<0>>, <<1>>, <<2>>, <<3>>, <<4>>}

RSamples == {0, 67, 27970, 33218}

SSamples == {0, 382, CurveN}

\* magic bytes: the four the signer writes, their neighbours and the extremes
MagicBytes == {0, 26, 27, 28, 29, 30, 31, 255}

\* the 2 * ScalarBytes bytes of r and s after the magic byte
EnvelopeBodies ==
  {BigEndian(r, ScalarBytes) \o BigEndian(s, ScalarBytes) :
     r \in {0, 67}, s \in {0, 382}}

\* texts that are no envelope: empty, cut short, badly padded, not bytes
BrokenEnvelopes ==
  {BytesV(<<>>), BytesV(b64encode(<<27>>)), BytesV(b64encode(<<28, 0, 67>>)),
   BytesV(<<71, 119, 65>>), StrV(b64encode(<<27, 0, 67, 1, 126>>)),
   StrV(<<65, 66, 67, 68>>), IntV(0)}

(***************************************************************************)
(* The client's calls                                                      *)
(***************************************************************************)
\* an input from outside opens the session
Fresh == op = "start"

\* a call on an input from outside, made from what `from` holds
FreshCall(name, a, out, from) ==
  /\ op' = name
  /\ arg' = a
  /\ ret' = out
  /\ origin' = from
  /\ via' = "input"
  /\ inner' = NoneV

\* a call on the value the last call returned
Chain(name, out) ==
  /\ op' = name
  /\ arg' = ret.value
  /\ ret' = out
  /\ origin' = arg
  /\ via' = op
  /\ inner' = NoneV

\* a call with arguments a; `in` is what it built and got from the curve
Call(name, a, out, in) ==
  /\ op' = name
  /\ arg' = a
  /\ ret' = out
  /\ origin' = arg
  /\ via' = op
  /\ inner' = in

\* the arguments of a call
Args(self, message, signature) ==
  [type |-> "call", self |-> self, message |-> message, signature |-> signature]

\* the Signature a call held, whether it asked the curve for the candidate
\* keys, and the candidates it got
Inner(sig, asked, pub_keys) ==
  [type |-> "inner", sig |-> sig, asked |-> asked, pub_keys |-> pub_keys]

Holds(type) == Returned(ret) /\ ret.value.type = type

Init ==
  /\ op = "start"
  /\ arg = NoneV
  /\ ret = Return(NoneV)
  /\ origin = NoneV
  /\ via = "input"
  /\ inner = NoneV

NewSignature ==
  /\ Fresh
  /\ \E r \in ScalarSamples, s \in ScalarSamples :
       FreshCall("Signature", [type |-> "tuple", val |-> <<r, s>>],
                 Return(Signature(r, s, NoRecoveryId)), NoneV)

SignatureToDer ==
  /\ Holds("Signature")
  /\ Chain("Signature.to_der", to_der(ret.value))

SignatureFromDer ==
  \/ /\ Holds("bytes")
     /\ op = "Signature.to_der"
     /\ Chain("Signature.from_der", from_der(ret.value))
  \/ /\ Fresh
     /\ \E d \in DerInputs : FreshCall("Signature.from_der", d, from_der(d), NoneV)

SignatureBytes ==
  /\ Holds("Signature")
  /\ Chain("Signature.__bytes__", Signature_bytes(ret.value))

SignatureFromBytes ==
  \/ /\ Holds("bytes")
     /\ op = "Signature.__bytes__"
     /\ Chain("Signature.from_bytes", Signature_from_bytes(ret.value))
  \/ /\ Fresh
     /\ \E b \in FixedInputs :
          FreshCall("Signature.from_bytes", b, Signature_from_bytes(b), NoneV)

NewPrivateKey ==
  /\ Fresh
  /\ \E k \in ScalarSamples :
       \/ FreshCall("PrivateKey", IntV(k), PrivateKey_init(k), NoneV)
       \/ FreshCall("PrivateKey.from_int", IntV(k), PrivateKey_from_int(k), NoneV)

\* the random source returns any value of its range; the sampled ones are followed
PrivateKeyFromRandom ==
  /\ Fresh
  /\ \E k \in RandomScalars \cap ScalarSamples :
       FreshCall("PrivateKey.from_random", IntV(k), PrivateKey_init(k), NoneV)

PrivateKeyToB58check ==
  /\ Holds("PrivateKey")
  /\ \E testnet \in BOOLEAN :
       Chain("PrivateKey.to_b58check", to_b58check(ret.value, testnet))

PrivateKeyFromB58check ==
  \/ /\ Holds("str")
     /\ op = "PrivateKey.to_b58check"
     /\ Chain("PrivateKey.from_b58check", from_b58check(ret.value))
  \/ /\ Fresh
     /\ \E raw \in B58Raw :
          FreshCall("PrivateKey.from_b58check", StrV(b58encode(raw)),
                    from_b58check(StrV(b58encode(raw))), BytesV(raw))
  \/ /\ Fresh
     /\ FreshCall("PrivateKey.from_b58check", StrV(<<48, 79>>),
                  from_b58check(StrV(<<48, 79>>)), NoneV)

PrivateKeyPublicKey ==
  /\ Holds("PrivateKey")
  /\ Chain("PrivateKey.public_key", Return(ret.value.public_key))

PublicKeyBytes ==
  /\ Holds("PublicKey")
  /\ \/ Chain("PublicKey.__bytes__", PublicKey_bytes(ret.value))
     \/ Chain("PublicKey.compressed_bytes", PublicKey_compressed_bytes(ret.value))

PublicKeyFromBytes ==
  \/ /\ Holds("bytes")
     /\ op \in {"PublicKey.__bytes__", "PublicKey.compressed_bytes"}
     /\ Chain("PublicKey.from_bytes", PublicKey_from_bytes(ret.value))
  \/ /\ Fresh
     /\ \E b \in SecInputs :
          FreshCall("PublicKey.from_bytes", b, PublicKey_from_bytes(b), NoneV)

PublicKeyAddress ==
  /\ Holds("PublicKey")
  /\ \E compressed \in BOOLEAN, testnet \in BOOLEAN :
       Chain("PublicKey.address", address(ret.value, compressed, testnet))

\* what from_signature held and got from the curve
from_signature_inner(message, signature, lenient) ==
  IF signature.recovery_id = NoRecoveryId \/ ~Returned(get_bytes(message))
  THEN Inner(<<signature>>, FALSE, <<>>)
  ELSE Inner(<<signature>>, TRUE,
             recover_public_key(get_bytes(message).value.val, signature,
                                signature.recovery_id[1], lenient))

\* what verify_bitcoin built and got from the curve
verify_bitcoin_inner(message, signature, lenient) ==
  LET sig == verify_bitcoin_sig(signature)
      msg == verifier_preimage(message)
  IN  IF ~Returned(sig) THEN Inner(<<>>, FALSE, <<>>)
      ELSE IF ~Returned(msg) THEN Inner(<<sig.value>>, FALSE, <<>>)
      ELSE from_signature_inner(BytesV(sha256(msg.value.val)), sig.value, lenient)

SignDefined(key, message, do_hash, nonce) ==
  Returned(message_bytes(message))
    => NonceUsable(message_bytes(message).value.val, key.key, do_hash, nonce)

PrivateKeySign ==
  /\ Holds("PrivateKey")
  /\ op = "PrivateKey"
  /\ \E m \in Messages, do_hash \in BOOLEAN, nonce \in NonceSamples, low_s \in BOOLEAN :
       /\ SignDefined(ret.value, m, do_hash, nonce)
       /\ Call("PrivateKey.sign", Args(ret.value, m, NoneV),
               PrivateKey_sign(ret.value, m, do_hash, nonce, low_s), NoneV)

PrivateKeySignBitcoin ==
  /\ Holds("PrivateKey")
  /\ op = "PrivateKey"
  /\ \E m \in Messages \cup {LongMessage}, nonce \in NonceSamples, low_s \in BOOLEAN :
       /\ Returned(signer_preimage(message_bytes(m).value.val))
            => SignDefined(ret.value,
                           BytesV(sha256(signer_preimage(message_bytes(m).value.val).value.val)),
                           TRUE, nonce)
       /\ Call("PrivateKey.sign_bitcoin", Args(ret.value, m, NoneV),
               sign_bitcoin(ret.value, m, nonce, low_s), NoneV)

PublicKeyFromSignature ==
  \/ /\ Holds("Signature")
     /\ op = "PrivateKey.sign"
     /\ \E lenient \in BOOLEAN :
          Call("PublicKey.from_signature", Args(NoneV, arg.message, ret.value),
               from_signature(arg.message, ret.value, lenient),
               from_signature_inner(arg.message, ret.value, lenient))
  \/ /\ Fresh
     /\ \E m \in Messages, r \in RSamples, s \in SSamples, id \in RecoveryIds,
           lenient \in BOOLEAN :
          Call("PublicKey.from_signature", Args(NoneV, m, Signature(r, s, id)),
               from_signature(m, Signature(r, s, id), lenient),
               from_signature_inner(m, Signature(r, s, id), lenient))

PublicKeyVerifyBitcoin ==
  \/ /\ Holds("bytes")
     /\ op = "PrivateKey.sign_bitcoin"
     /\ \E lenient \in BOOLEAN :
          Call("PublicKey.verify_bitcoin", Args(NoneV, arg.message, ret.value),
               verify_bitcoin(arg.message, ret.value, lenient),
               verify_bitcoin_inner(arg.message, ret.value, lenient))
  \/ /\ Fresh
     /\ \E m \in Messages, lenient \in BOOLEAN :
          \E text \in BrokenEnvelopes
                      \cup {BytesV(b64encode(<<magic>> \o body)) :
                              magic \in MagicBytes, body \in EnvelopeBodies} :
            Call("PublicKey.verify_bitcoin", Args(NoneV, m, text),
                 verify_bitcoin(m, text, lenient),
                 verify_bitcoin_inner(m, text, lenient))


Next ==
  \/ NewSignature
  \/ SignatureToDer
  \/ SignatureFromDer
  \/ SignatureBytes
  \/ SignatureFromBytes
  \/ NewPrivateKey
  \/ PrivateKeyFromRandom
  \/ PrivateKeyToB58check
  \/ PrivateKeyFromB58check
  \/ PrivateKeyPublicKey
  \/ PublicKeyBytes
  \/ PublicKeyFromBytes
  \/ PublicKeyAddress
  \/ PrivateKeySign
  \/ PrivateKeySignBitcoin
  \/ PublicKeyFromSignature
  \/ PublicKeyVerifyBitcoin

Spec == Init /\ [][Next]_vars

(***************************************************************************)
(* Properties                                                              *)
(***************************************************************************)
InRange(v) == v \in 1..(CurveN - 1)

\* C1: DER round trip.  When from_der is given what to_der made of a
\* signature whose r and s are both in [1, n-1], it returns a signature with
\* the same r and s.
C1_DerRoundTrip ==
  (/\ op = "Signature.from_der"
   /\ via = "Signature.to_der"
   /\ InRange(origin.r)
   /\ InRange(origin.s))
  => (/\ Returned(ret)
      /\ ret.value.r = origin.r
      /\ ret.value.s = origin.s)

\* C2: from_der accepts the canonical encoding only.  When to_der encodes a
\* signature that from_der returned for a byte sequence, the result is that
\* byte sequence.
C2_CanonicalOnly ==
  (/\ op = "Signature.to_der"
   /\ via = "Signature.from_der"
   /\ origin.type = "bytes")
  => ret = Return(origin)

DerReasons ==
  {"DER signature string is too short.",
   "DER signature does not start with 0x30.",
   "DER signature length incorrect.",
   "DER signature no 1st int marker.",
   "DER signature incorrect r length.",
   "DER signature R is negative.",
   "DER signature R is excessively padded.",
   "DER signature no 2nd int marker.",
   "DER signature incorrect s length.",
   "DER signature S is negative.",
   "DER signature S is excessively padded.",
   "DER signature R is not between 1 and N - 1.",
   "DER signature S is not between 1 and N - 1."}

\* C3: on a byte sequence from_der either returns a signature with r and s
\* in [1, n-1] or fails with one of the named DER reasons; it never fails by
\* reading past the end of the input.
C3_DerOutcome ==
  (op = "Signature.from_der" /\ arg.type = "bytes")
  => \/ /\ Returned(ret)
        /\ ret.value.type = "Signature"
        /\ InRange(ret.value.r)
        /\ InRange(ret.value.s)
     \/ /\ ~Returned(ret)
        /\ ret.exc = "ValueError"
        /\ ret.reason \in DerReasons

\* from_der has returned a signature for bytes from outside whose declared r
\* length is the largest the length check lets through
C3_Witness ==
  /\ op = "Signature.from_der"
  /\ via = "input"
  /\ arg.type = "bytes"
  /\ Returned(ret)
  /\ Item(arg.val, 3) = Item(arg.val, 1) - 7

\* C4: from_der reports the first violated check.  An input of at least 8
\* bytes that does not start with 0x30 fails with the sequence tag reason
\* whatever follows, and one that starts with 0x30 and whose second byte is
\* not the number of bytes after it fails with the length reason.
C4_FirstViolatedCheck ==
  (op = "Signature.from_der" /\ arg.type = "bytes" /\ Len(arg.val) >= 8)
  => /\ (arg.val[1] # 48)
          => ret = DerError("DER signature does not start with 0x30.")
     /\ (arg.val[1] = 48 /\ arg.val[2] # Len(arg.val) - 2)
          => ret = DerError("DER signature length incorrect.")

\* from_der has refused an input whose tag, declared length and integer
\* markers are all wrong
C4_Witness ==
  /\ op = "Signature.from_der"
  /\ arg.type = "bytes"
  /\ Len(arg.val) >= 8
  /\ arg.val[1] = 49
  /\ arg.val[2] # Len(arg.val) - 2
  /\ arg.val[3] # 2
  /\ ~Returned(ret)

\* C5: Signature.from_bytes fails whenever the r or the s it decodes is
\* outside [1, n-1].
C5_FromBytesRange ==
  (/\ op = "Signature.from_bytes"
   /\ \/ ~InRange(int_from_bytes(Slice(arg.val, 0, ScalarBytes)))
      \/ ~InRange(int_from_bytes(Slice(arg.val, ScalarBytes, 2 * ScalarBytes))))
  => ~Returned(ret)

\* C6: every PrivateKey object has a scalar in [1, n-1].
C6_KeyInRange ==
  Holds("PrivateKey") => InRange(ret.value.key)

\* C7: from_random returns a key whose scalar is in [1, n-1], and every
\* scalar of [1, n-1] is one the random source can hand it.
C7_RandomRange ==
  (op = "PrivateKey.from_random")
  => /\ Returned(ret)
     /\ InRange(ret.value.key)
     /\ \A k \in 1..(CurveN - 1) : k \in RandomScalars

\* the string was made from raw bytes whose checksum is not that of the
\* bytes before it, or whose version byte is not a private key's
Corrupted(raw) ==
  \/ SliceFrom(raw, Len(raw) - 4) # Checksum(Slice(raw, 0, Len(raw) - 4))
  \/ raw[1] \notin {128, 239}

\* C8: Base58Check round trip.  Decoding what to_b58check made of a key with
\* a scalar in [1, n-1] returns a key with the same scalar, for either
\* network; a string with an altered checksum or with a version byte other
\* than 0x80 and 0xEF fails to decode.
C8_B58RoundTrip ==
  /\ (/\ op = "PrivateKey.from_b58check"
      /\ via = "PrivateKey.to_b58check"
      /\ InRange(origin.key))
     => (Returned(ret) /\ ret.value.key = origin.key)
  /\ (/\ op = "PrivateKey.from_b58check"
      /\ via = "input"
      /\ origin.type = "bytes"
      /\ Corrupted(origin.val))
     => ~Returned(ret)

\* the testnet encoding of the key n-1 has been decoded
C8_Witness ==
  /\ op = "PrivateKey.from_b58check"
  /\ via = "PrivateKey.to_b58check"
  /\ origin.key = CurveN - 1
  /\ b58decode(arg.val).value.val[1] = PrivateKey_TESTNET_VERSION
  /\ Returned(ret)

\* C9: SEC round trip.  Decoding the compressed bytes of a public key gives
\* the point that decoding its uncompressed bytes gives, the y chosen being
\* the one whose lowest bit is the prefix minus 0x02; hence the compressed
\* addresses are the same.
C9_SecRoundTrip ==
  (op = "PublicKey.from_bytes" /\ via = "PublicKey.compressed_bytes")
  => LET other == PublicKey_from_bytes(PublicKey_bytes(origin).value)
     IN  /\ Returned(ret)
         /\ Returned(other)
         /\ ret.value.point = other.value.point
         /\ ret.value.point.y % 2 = Item(arg.val, 0) - 2
         /\ \A testnet \in BOOLEAN :
              address(ret.value, TRUE, testnet) = address(other.value, TRUE, testnet)

\* the compressed bytes of a key have been decoded to the second of the two
\* roots
C9_Witness ==
  /\ op = "PublicKey.from_bytes"
  /\ via = "PublicKey.compressed_bytes"
  /\ Returned(ret)
  /\ ret.value.point.y = y_from_x(ret.value.point.x)[2]

\* C10: from_bytes returns None for an input whose first byte is none of
\* 0x02, 0x03 and 0x04, whatever its length; a 0x04 input of another length
\* than an uncompressed key's and a 0x02 or 0x03 input of another length
\* than a compressed key's fail with the length error.
C10_UnknownPrefixIsNone ==
  (op = "PublicKey.from_bytes" /\ arg.type = "bytes" /\ Len(arg.val) >= 1)
  => /\ (arg.val[1] \notin {2, 3, 4}) => ret = Return(NoneV)
     /\ (arg.val[1] = 4 /\ Len(arg.val) # 1 + 2 * ScalarBytes)
          => ret = Raise("ValueError",
                         "key_bytes must be exactly 65 bytes long when uncompressed.")
     /\ (arg.val[1] \in {2, 3} /\ Len(arg.val) # 1 + ScalarBytes)
          => ret = Raise("ValueError",
                         "key_bytes must be exactly 33 bytes long when compressed.")

\* from_bytes has returned None for an input of an uncompressed key's length
\* that starts with 0x05
C10_Witness ==
  /\ op = "PublicKey.from_bytes"
  /\ arg.type = "bytes"
  /\ Len(arg.val) = 1 + 2 * ScalarBytes
  /\ arg.val[1] = 5
  /\ ret = Return(NoneV)

\* a call of verify_bitcoin on what sign_bitcoin returned for the same message
SignedThenVerified ==
  /\ op = "PublicKey.verify_bitcoin"
  /\ via = "PrivateKey.sign_bitcoin"
  /\ InRange(origin.self.key)

\* C11: Bitcoin-message round trip.  For a private key in [1, n-1] and a
\* message of fewer than 256 bytes, verify_bitcoin(message,
\* key.sign_bitcoin(message)) returns True.
C11_BitcoinRoundTrip ==
  SignedThenVerified => ret = Return(BoolV(TRUE))

\* the round trip for a message given as bytes: the call returns True, the
\* recovery id the verifier reads is the signer's, one of 0..3, and the key
\* it recovers is the signer's public key
BytesRoundTrip ==
  (SignedThenVerified /\ arg.message.type = "bytes")
  => /\ ret = Return(BoolV(TRUE))
     /\ inner.asked
     /\ inner.sig[1].recovery_id[1] \in 0..3
     /\ MagicOfRecoveryId(inner.sig[1].recovery_id[1])
          = Item(b64decode(arg.signature).value.val, 0)
     /\ \E i \in 1..Len(inner.pub_keys) :
          /\ inner.pub_keys[i][2] = inner.sig[1].recovery_id[1]
          /\ inner.pub_keys[i][1] = origin.self.public_key.point

\* the bytes round trip happens for each of the recovery ids 0..3
BytesRoundTripReached(id) ==
  /\ SignedThenVerified
  /\ arg.message.type = "bytes"
  /\ inner.sig[1].recovery_id = <<id>>

\* the candidates whose recovery id is the signature's
Matching(sig, pub_keys) ==
  {i \in 1..Len(pub_keys) : <<pub_keys[i][2]>> = sig.recovery_id}

\* C12: from_signature and the recovery id.  With no recovery id the call
\* fails.  With one, once the curve has given its candidates, the call
\* returns None when no candidate has the signature's recovery id (an empty
\* list included), and otherwise returns the PublicKey of the first candidate
\* that has it: never a key built from a candidate with another recovery id.
C12_FromSignatureRecid ==
  (op = "PublicKey.from_signature")
  => /\ arg.signature.recovery_id = NoRecoveryId
          => ret = Raise("ValueError", "The signature must have a recovery_id.")
     /\ (arg.signature.recovery_id # NoRecoveryId /\ ~inner.asked) => ~Returned(ret)
     /\ inner.asked
          => /\ Matching(arg.signature, inner.pub_keys) = {} <=> ret = Return(NoneV)
             /\ Matching(arg.signature, inner.pub_keys) # {}
                  => /\ Holds("PublicKey")
                     /\ \E i \in Matching(arg.signature, inner.pub_keys) :
                          /\ ret.value.point = inner.pub_keys[i][1]
                          /\ \A j \in Matching(arg.signature, inner.pub_keys) : i <= j

\* a key returned for a candidate that is not the first of the list
C12_Witness ==
  /\ op = "PublicKey.from_signature"
  /\ Holds("PublicKey")
  /\ Len(inner.pub_keys) >= 2
  /\ 1 \notin Matching(arg.signature, inner.pub_keys)

\* None returned although the curve gave candidates
C12_NoneReached ==
  /\ op = "PublicKey.from_signature"
  /\ ret = Return(NoneV)
  /\ Len(inner.pub_keys) >= 1

\* None returned for an empty list of candidates
C12_EmptyReached ==
  /\ op = "PublicKey.from_signature"
  /\ ret = Return(NoneV)
  /\ inner.asked
  /\ inner.pub_keys = <<>>

\* the call refused for want of a recovery id
C12_UnsetReached ==
  /\ op = "PublicKey.from_signature"
  /\ arg.signature.recovery_id = NoRecoveryId

\* the digest verify_bitcoin hands to the curve for the message of the call
VerifiedHash == sha256(verifier_preimage(arg.message).value.val)

\* the key verify_bitcoin recovered: the first candidate with the recovery id
\* it read from the magic byte
RecoveredKey ==
  inner.pub_keys[CHOOSE i \in Matching(inner.sig[1], inner.pub_keys) :
                   \A j \in Matching(inner.sig[1], inner.pub_keys) : i <= j][1]

C13_UnrecoverableReached ==
  /\ op = "PublicKey.verify_bitcoin"
  /\ inner.asked
  /\ inner.sig[1].recovery_id[1] \in 0..3
  /\ Matching(inner.sig[1], inner.pub_keys) = {}
  /\ ~Returned(ret)

\* a recovery id that is unset or one of 0..3
RecoveryIdOk(sig) ==
  sig.recovery_id = NoRecoveryId \/ sig.recovery_id[1] \in 0..3

\* C14: every Signature has a recovery id that is unset or in 0..3: the ones
\* sign and the decoders return, and the one verify_bitcoin builds from an
\* envelope, whatever the magic byte, so that no other recovery id is
\* assigned or handed to the curve.
C14_RecoveryIdRange ==
  /\ Holds("Signature") => RecoveryIdOk(ret.value)
  /\ (op = "PublicKey.verify_bitcoin" /\ inner.sig # <<>>) => RecoveryIdOk(inner.sig[1])

\* the signatures a call returns keep the range
ReturnedRecoveryIdOk == Holds("Signature") => RecoveryIdOk(ret.value)

\* verify_bitcoin asked the curve with a recovery id outside 0..3
OutOfRangeIdAsked ==
  /\ op = "PublicKey.verify_bitcoin"
  /\ inner.asked
  /\ ~RecoveryIdOk(inner.sig[1])

====
